---- MODULE Spec2Model ----
(***************************************************************************)
(* Model of orttraining/core/graph/gradient_builder_base.h: the base       *)
(* class of the per-operator gradient builders, its two degenerate         *)
(* subclasses, the constant-node helpers and the broadcast-axis resolver.  *)
(*                                                                         *)
(* Strings are sequences of one-character strings, so that concatenation   *)
(* (operator+ on std::string) is computed and two differently built names  *)
(* can be compared character by character.                                 *)
(***************************************************************************)
EXTENDS Integers, Sequences, FiniteSets, TLC

VARIABLES node_args, generated_node_names, name_counter,
          builder, prefixes, stashed_tensors, ret,
          constant_call, broadcast_call

vars == <<node_args, generated_node_names, name_counter,
          builder, prefixes, stashed_tensors, ret,
          constant_call, broadcast_call>>

\* the last calls of the static helpers, which no builder state bears on
helper_calls == <<constant_call, broadcast_call>>

(***************************************************************************)
(* Bounds of the model.                                                    *)
(***************************************************************************)
\* largest index handed to an indexed accessor (0-based, as size_t i)
MaxIdx == 1
\* longest node list a concrete GetGradientDefsImpl returns
MaxNodes == 2

\* largest element-type tag handed to the constant helpers
MaxElemType == 21
\* largest rank and largest extent of the shapes handed to the axis resolver
MaxRank == 3
MaxDim == 3

(***************************************************************************)
(* ONNX_NAMESPACE::TensorProto_DataType tags the header names (FLOAT is    *)
(* the type ToTensor<float> writes).                                       *)
(***************************************************************************)
FLOAT == 1
FLOAT16 == 10
BFLOAT16 == 16
FLOAT8E4M3FN == 17
FLOAT8E4M3FNUZ == 18
FLOAT8E5M2 == 19
FLOAT8E5M2FNUZ == 20

(***************************************************************************)
(* Strings.                                                                *)
(***************************************************************************)
Digits == <<"0", "1", "2", "3", "4", "5", "6", "7", "8", "9">>

\* std::to_string of a non-negative integer
RECURSIVE to_string(_)
to_string(n) ==
    IF n < 10 THEN <<Digits[n + 1]>>
    ELSE to_string(n \div 10) \o <<Digits[(n % 10) + 1]>>

IsPrefixOf(p, s) == Len(p) <= Len(s) /\ SubSeq(s, 1, Len(p)) = p

HasSlash(s) == \E k \in 1..Len(s) : s[k] = "/"

\* static std::string GradientName(name): name + "_grad"
GradientName(name) == name \o <<"_", "g", "r", "a", "d">>

\* static std::string ExternalOutputName(name): name + "_external"
ExternalOutputName(name) == name \o <<"_", "e", "x", "t", "e", "r", "n", "a", "l">>

\* graph_utils::RecomputeName (recompute_graph_utils.h): the naming
\* convention of the recomputed alias of a tensor
RecomputeName(name) == name \o <<"_", "r", "e", "c", "o", "m", "p", "u", "t", "e">>

(***************************************************************************)
(* The forward graph the pass differentiates (read-only to the builders).  *)
(* Node names are unique among the non-empty ones, as a resolved graph     *)
(* requires; nodes 1 and 2 are anonymous and of the same operator type.    *)
(***************************************************************************)
tX == <<"x">>
tY == <<"y">>
tZ == <<"z">>
tV == <<"v">>

FwdNodes ==
    << [name |-> <<>>, op_type |-> <<"A", "d", "d">>,
        inputs |-> <<tX>>, outputs |-> <<tY>>],
       [name |-> <<>>, op_type |-> <<"A", "d", "d">>,
        inputs |-> <<tY>>, outputs |-> <<tZ>>],
       [name |-> <<"A", "d", "d", "_", "G", "r", "a", "d", "/", "b">>,
        op_type |-> <<"M", "u", "l">>,
        inputs |-> <<tY, tZ>>, outputs |-> <<tV>>] >>

NodeIds == DOMAIN FwdNodes

InputDefs(n) == FwdNodes[n].inputs
OutputDefs(n) == FwdNodes[n].outputs

SeqRange(s) == {s[k] : k \in 1..Len(s)}

ForwardArgs == UNION {SeqRange(InputDefs(n)) \cup SeqRange(OutputDefs(n)) : n \in NodeIds}

\* tensors written by a forward node: the only ones a recompute pass duplicates
ProducedArgs == UNION {SeqRange(OutputDefs(n)) : n \in NodeIds}

\* the produced tensors the model lets the recompute pass duplicate
RecomputeCandidates == {tY}

\* NodeArg::TypeAsProto: the element type recorded for a tensor of the graph
TypeAsProto(name) == IF name \in {tZ, RecomputeName(tZ)} THEN FLOAT16 ELSE FLOAT

\* Graph::GetNodeArg(name): non-null iff the graph holds an argument of that name
GetNodeArg(name) == name \in node_args

(***************************************************************************)
(* Graph::GenerateNodeName (graph.cc): a name no node of the graph bears   *)
(* and that was not generated before; the base name itself when it is      *)
(* free, else base + "_token_" + a running counter.                        *)
(***************************************************************************)
NameIsOk(name) ==
    /\ \A n \in NodeIds : FwdNodes[n].name # name
    /\ name \notin generated_node_names

TokenName(base, c) == base \o <<"_", "t", "o", "k", "e", "n", "_">> \o to_string(c)

RECURSIVE FirstFreeToken(_, _)
FirstFreeToken(base, c) ==
    IF NameIsOk(TokenName(base, c)) THEN c ELSE FirstFreeToken(base, c + 1)

GenerateNodeName(base) ==
    IF NameIsOk(base)
    THEN [name |-> base, counter |-> name_counter]
    ELSE LET c == FirstFreeToken(base, name_counter)
         IN  [name |-> TokenName(base, c), counter |-> c + 1]

(***************************************************************************)
(* GradientBuilderBase: construction.                                      *)
(***************************************************************************)
BuilderKinds == {"Concrete", "Empty", "UnSupported"}

NoBuilder ==
    [node |-> 0, kind |-> "None", unique_node_prefix |-> <<>>,
     gradient_inputs |-> {}, gradient_outputs |-> {}]

\* a prefix that drops the forward node's own name and keeps its operator type
PrefixFromOpType(n) ==
    FwdNodes[n].op_type \o <<"_", "G", "r", "a", "d", "/">>

\* CreateUniqueNodePrefix: <node name>_Grad/, or <generated name>_Grad/ for
\* an anonymous forward node
CreateUniqueNodePrefix(n) ==
    LET name == FwdNodes[n].name
    IN  IF name # <<>>
        THEN name \o <<"_", "G", "r", "a", "d", "/">>
        ELSE GenerateNodeName(FwdNodes[n].op_type).name \o <<"_", "G", "r", "a", "d", "/">>

\* the forward nodes a builder was made for so far
Built == {p[1] : p \in prefixes}

\* the constructor: the members are copied from its arguments and the prefix
\* is computed once; node = 0 stands for a null node pointer, which the
\* ORT_ENFORCE of CreateUniqueNodePrefix rejects (no builder comes to exist).
\* The orchestrator makes one builder per forward node, one at a time.
Construct(n, kind, gradient_inputs, gradient_outputs) ==
    /\ builder = NoBuilder
    /\ n \notin Built
    /\ IF n = 0
       THEN UNCHANGED <<builder, prefixes, generated_node_names, name_counter>>
       ELSE /\ builder' = [node |-> n, kind |-> kind,
                           unique_node_prefix |-> CreateUniqueNodePrefix(n),
                           gradient_inputs |-> gradient_inputs,
                           gradient_outputs |-> gradient_outputs]
            /\ prefixes' = prefixes \cup {<<n, CreateUniqueNodePrefix(n)>>}
            /\ IF FwdNodes[n].name = <<>>
               THEN LET g == GenerateNodeName(FwdNodes[n].op_type)
                    IN  /\ generated_node_names' = generated_node_names \cup {g.name}
                        /\ name_counter' = g.counter
               ELSE UNCHANGED <<generated_node_names, name_counter>>
    /\ UNCHANGED <<helper_calls, node_args, stashed_tensors, ret>>

\* the orchestrator discards the builder before it makes the next one
Destroy ==
    /\ builder # NoBuilder
    /\ builder' = NoBuilder
    /\ UNCHANGED <<helper_calls, node_args, generated_node_names, name_counter,
                   prefixes, stashed_tensors, ret>>

(***************************************************************************)
(* What the last call of a builder method returned (or that it threw).     *)
(***************************************************************************)
NoCall ==
    [op |-> "none", record_stashing |-> FALSE,
     text |-> <<>>, status |-> "ok", name |-> <<>>, type |-> 0,
     bool |-> FALSE, impl |-> <<>>, defs |-> <<>>]

Call(op) == [NoCall EXCEPT !.op = op]

Fatal(call) == [call EXCEPT !.status = "fatal"]

\* ArgDef(name, type) returned by a call
Returned(call, name, type) == [call EXCEPT !.name = name, !.type = type]

\* protected: the members below are reached only from the code of a derived
\* class, and the two degenerate classes of this file call none of them
Accessible == builder.kind = "Concrete"

(***************************************************************************)
(* Stash bookkeeping.                                                      *)
(***************************************************************************)
\* an assignment where the insertion should be
stashed_assign(name) == {name}

\* stashed_tensors_.insert(name): the set after the insertion
stashed_insert(name) == stashed_tensors \cup {name}

RecordStashedTensor(name) ==
    /\ Accessible
    /\ stashed_tensors' = stashed_insert(name)
    /\ ret' = Call("RecordStashedTensor")
    /\ UNCHANGED <<helper_calls, node_args, generated_node_names, name_counter,
                   builder, prefixes>>

IsTensorStashed(name) ==
    /\ Accessible
    /\ ret' = [Call("IsTensorStashed") EXCEPT !.bool = (name \in stashed_tensors)]
    /\ UNCHANGED <<helper_calls, node_args, generated_node_names, name_counter,
                   builder, prefixes, stashed_tensors>>

(***************************************************************************)
(* Indexed accessors.  i is 0-based, defs[i + 1] is the i-th definition.   *)
(***************************************************************************)
\* every definition of the node is stashed, not only the one asked for
StashAll(defs, i) == stashed_tensors \cup SeqRange(defs)

\* RecordStashedTensor(defs[i]->Name()) as I and O call it
StashOne(defs, i) == stashed_insert(defs[i + 1])

\* I with the stashing done before the lookup of the recomputed alias
I_StashFirst(i, record_stashing) ==
    LET defs == InputDefs(builder.node)
        call == [Call("I") EXCEPT !.record_stashing = record_stashing]
    IN  /\ Accessible
        /\ IF ~(i < Len(defs))
           THEN /\ ret' = Fatal(call)
                /\ UNCHANGED stashed_tensors
           ELSE LET name == defs[i + 1]
                    out == IF GetNodeArg(RecomputeName(name))
                           THEN RecomputeName(name) ELSE name
                IN  /\ stashed_tensors' = IF record_stashing THEN StashOne(defs, i)
                                          ELSE stashed_tensors
                    /\ ret' = Returned([call EXCEPT !.text = name], out, TypeAsProto(out))
        /\ UNCHANGED <<helper_calls, node_args, generated_node_names, name_counter,
                       builder, prefixes>>

\* i-th input of forward op
I(i, record_stashing) ==
    LET defs == InputDefs(builder.node)
        call == [Call("I") EXCEPT !.record_stashing = record_stashing]
    IN  /\ Accessible
        /\ IF ~(i < Len(defs))
           THEN /\ ret' = Fatal(call)
                /\ UNCHANGED stashed_tensors
           ELSE LET name == defs[i + 1]
                IN  IF GetNodeArg(RecomputeName(name))
                    THEN /\ ret' = Returned([call EXCEPT !.text = name],
                                            RecomputeName(name),
                                            TypeAsProto(RecomputeName(name)))
                         /\ UNCHANGED stashed_tensors
                    ELSE /\ stashed_tensors' = IF record_stashing THEN StashOne(defs, i)
                                               ELSE stashed_tensors
                         /\ ret' = Returned([call EXCEPT !.text = name],
                                            name, TypeAsProto(name))
        /\ UNCHANGED <<helper_calls, node_args, generated_node_names, name_counter,
                       builder, prefixes>>

\* i-th output of forward op
O(i, record_stashing) ==
    LET defs == OutputDefs(builder.node)
        call == [Call("O") EXCEPT !.record_stashing = record_stashing]
    IN  /\ Accessible
        /\ IF ~(i < Len(defs))
           THEN /\ ret' = Fatal(call)
                /\ UNCHANGED stashed_tensors
           ELSE LET name == defs[i + 1]
                IN  IF GetNodeArg(RecomputeName(name))
                    THEN /\ ret' = Returned([call EXCEPT !.text = name],
                                            RecomputeName(name),
                                            TypeAsProto(RecomputeName(name)))
                         /\ UNCHANGED stashed_tensors
                    ELSE /\ stashed_tensors' = IF record_stashing THEN StashOne(defs, i)
                                               ELSE stashed_tensors
                         /\ ret' = Returned([call EXCEPT !.text = name],
                                            name, TypeAsProto(name))
        /\ UNCHANGED <<helper_calls, node_args, generated_node_names, name_counter,
                       builder, prefixes>>

\* GI whose index is clamped to the last input where it should be refused
GI_Clamped(i) ==
    LET defs == InputDefs(builder.node)
        k == IF i < Len(defs) THEN i + 1 ELSE Len(defs)
    IN  /\ Accessible
        /\ ret' = Returned([Call("GI") EXCEPT !.text = defs[k]],
                           GradientName(defs[k]), TypeAsProto(defs[k]))
        /\ UNCHANGED <<helper_calls, node_args, generated_node_names, name_counter,
                       builder, prefixes, stashed_tensors>>

\* gradient of i-th input of forward op
GI(i) ==
    LET defs == InputDefs(builder.node)
        call == Call("GI")
    IN  /\ Accessible
        /\ IF ~(i < Len(defs))
           THEN ret' = Fatal(call)
           ELSE ret' = Returned([call EXCEPT !.text = defs[i + 1]],
                                GradientName(defs[i + 1]), TypeAsProto(defs[i + 1]))
        /\ UNCHANGED <<helper_calls, node_args, generated_node_names, name_counter,
                       builder, prefixes, stashed_tensors>>

\* gradient of i-th input of forward op, with the type the caller supplies
GIType(i, type) ==
    LET defs == InputDefs(builder.node)
        call == Call("GIType")
    IN  /\ Accessible
        /\ IF ~(i < Len(defs))
           THEN ret' = Fatal(call)
           ELSE ret' = Returned([call EXCEPT !.text = defs[i + 1]],
                                GradientName(defs[i + 1]), type)
        /\ UNCHANGED <<helper_calls, node_args, generated_node_names, name_counter,
                       builder, prefixes, stashed_tensors>>

\* gradient of i-th output of forward op
GO(i) ==
    LET defs == OutputDefs(builder.node)
        call == Call("GO")
    IN  /\ Accessible
        /\ IF ~(i < Len(defs))
           THEN ret' = Fatal(call)
           ELSE ret' = Returned([call EXCEPT !.text = defs[i + 1]],
                                GradientName(defs[i + 1]), TypeAsProto(defs[i + 1]))
        /\ UNCHANGED <<helper_calls, node_args, generated_node_names, name_counter,
                       builder, prefixes, stashed_tensors>>

\* type of i-th input of forward op
IType(i) ==
    LET defs == InputDefs(builder.node)
        call == Call("IType")
    IN  /\ Accessible
        /\ IF ~(i < Len(defs))
           THEN ret' = Fatal(call)
           ELSE ret' = [call EXCEPT !.text = defs[i + 1], !.type = TypeAsProto(defs[i + 1])]
        /\ UNCHANGED <<helper_calls, node_args, generated_node_names, name_counter,
                       builder, prefixes, stashed_tensors>>

\* type of i-th output of forward op
OType(i) ==
    LET defs == OutputDefs(builder.node)
        call == Call("OType")
    IN  /\ Accessible
        /\ IF ~(i < Len(defs))
           THEN ret' = Fatal(call)
           ELSE ret' = [call EXCEPT !.text = defs[i + 1], !.type = TypeAsProto(defs[i + 1])]
        /\ UNCHANGED <<helper_calls, node_args, generated_node_names, name_counter,
                       builder, prefixes, stashed_tensors>>

\* returns true if the input at index i of the node requires gradient
IsGradientRequiredForSrcNodeInput(i) ==
    LET defs == InputDefs(builder.node)
    IN  /\ Accessible
        /\ ret' = [Call("IsGradientRequiredForSrcNodeInput") EXCEPT
                     !.bool = (i < Len(defs) /\ defs[i + 1] \in builder.gradient_outputs)]
        /\ UNCHANGED <<helper_calls, node_args, generated_node_names, name_counter,
                       builder, prefixes, stashed_tensors>>

\* returns true if the output at index i of the node has a gradient
IsGradientAvailableForSrcNodeOutput(i) ==
    LET defs == OutputDefs(builder.node)
    IN  /\ Accessible
        /\ ret' = [Call("IsGradientAvailableForSrcNodeOutput") EXCEPT
                     !.bool = (i < Len(defs) /\ defs[i + 1] \in builder.gradient_inputs)]
        /\ UNCHANGED <<helper_calls, node_args, generated_node_names, name_counter,
                       builder, prefixes, stashed_tensors>>

(***************************************************************************)
(* Names scoped to the builder.                                            *)
(***************************************************************************)
\* std::string Name(name): unique_node_prefix_ + name
Name(prefix, name) == prefix \o name

\* intermediate argument
IA(argSuffix) ==
    /\ Accessible
    /\ ret' = Returned([Call("IA") EXCEPT !.text = argSuffix],
                       Name(builder.unique_node_prefix, argSuffix), 0)
    /\ UNCHANGED <<helper_calls, node_args, generated_node_names, name_counter,
                   builder, prefixes, stashed_tensors>>

(***************************************************************************)
(* GetGradientDefs.  A NodeDef is modelled by its op_type and its name.    *)
(***************************************************************************)
ImplOpTypes == {<<"S", "u", "m">>}
ImplNames == {<<>>, <<"n">>}
ImplNodeDefs == {[op_type |-> t, name |-> nm] : t \in ImplOpTypes, nm \in ImplNames}
ImplLists == UNION {[1..k -> ImplNodeDefs] : k \in 0..MaxNodes}

\* what I(i) and O(i), called with the default record_stashing = true, leave
\* in StashedTensors for the inputs ins and the outputs outs
StashedByReads(n, ins, outs) ==
    {InputDefs(n)[i + 1] : i \in {j \in ins : ~GetNodeArg(RecomputeName(InputDefs(n)[j + 1]))}}
    \cup
    {OutputDefs(n)[i + 1] : i \in {j \in outs : ~GetNodeArg(RecomputeName(OutputDefs(n)[j + 1]))}}

\* an empty builder that reads the inputs of its node all the same
EmptyImplReadsInputs ==
    [status |-> "ok", defs |-> <<>>,
     stash |-> StashedByReads(builder.node, 0..(Len(InputDefs(builder.node)) - 1), {})]

\* EmptyGradientBuilder::GetGradientDefsImpl: return GradientDef()
EmptyGradientDefsImpl == [status |-> "ok", defs |-> <<>>, stash |-> {}]

\* an unsupported builder that answers with an empty definition
UnSupportedImplReturnsEmpty == [status |-> "ok", defs |-> <<>>, stash |-> {}]

\* UnSupportedGradientBuilder::GetGradientDefsImpl: ORT_ENFORCE(false, ...)
UnSupportedGradientDefsImpl == [status |-> "fatal", defs |-> <<>>, stash |-> {}]

\* a concrete per-operator builder: it reads some inputs and outputs of the
\* forward node through I and O and returns the node list node_defs
ConcreteGradientDefsImpl(node_defs, ins, outs) ==
    [status |-> "ok", defs |-> node_defs,
     stash |-> StashedByReads(builder.node, ins, outs)]

\* the definitions a concrete implementation reads: none of them, or all
ReadChoices(defs) == {{}, 0..(Len(defs) - 1)}

\* virtual GradientDef GetGradientDefsImpl() const = 0: what the call can
\* come to, by the class of the live builder
GetGradientDefsImpl ==
    CASE builder.kind = "Empty" -> {EmptyGradientDefsImpl}
      [] builder.kind = "UnSupported" -> {UnSupportedGradientDefsImpl}
      [] builder.kind = "Concrete" ->
            {ConcreteGradientDefsImpl(node_defs, ins, outs) :
                node_defs \in ImplLists,
                ins \in ReadChoices(InputDefs(builder.node)),
                outs \in ReadChoices(OutputDefs(builder.node))}
      [] OTHER -> {}

\* the generated name without the index of the node
AutoNameNoIndex(prefix, op_type, i) == Name(prefix, op_type)

\* Name(node_def.op_type + "_" + std::to_string(i))
AutoName(prefix, op_type, i) == Name(prefix, op_type \o <<"_">> \o to_string(i))

\* the loop of GetGradientDefs over the list the implementation returned
FinalizeNames(prefix, node_defs) ==
    [k \in 1..Len(node_defs) |->
        IF node_defs[k].name = <<>>
        THEN [node_defs[k] EXCEPT !.name = AutoName(prefix, node_defs[k].op_type, k - 1)]
        ELSE node_defs[k]]

GetGradientDefs(impl) ==
    LET call == Call("GetGradientDefs")
    IN  /\ builder # NoBuilder
        /\ IF impl.status = "fatal"
           THEN /\ ret' = Fatal(call)
                /\ UNCHANGED stashed_tensors
           ELSE /\ ret' = [call EXCEPT !.impl = impl.defs,
                                       !.defs = FinalizeNames(builder.unique_node_prefix,
                                                              impl.defs)]
                /\ stashed_tensors' = stashed_tensors \cup impl.stash
        /\ UNCHANGED <<helper_calls, node_args, generated_node_names, name_counter,
                       builder, prefixes>>

(***************************************************************************)
(* Constant nodes.  A TensorProto is modelled by its data type, its dims   *)
(* and the value it carries; T, the C++ type the value is converted to, is *)
(* named by the data type ToTensor<T> writes (MLFloat16 by FLOAT16, ...).  *)
(***************************************************************************)
FloatValues == {"0.0", "0.5", "1.0"}

NoNode ==
    [status |-> "none", op_type |-> "", inputs |-> <<>>, outputs |-> <<>>,
     value |-> [data_type |-> 0, dims |-> <<>>, value |-> ""]]

\* ONNX_NAMESPACE::ToTensor<T>(value)
ToTensor(T, value) == [data_type |-> T, dims |-> <<>>, value |-> value]

\* template ScalarTensorProto(T value, shape)
ScalarTensorProto(T, value, shape) ==
    IF ~(Len(shape) = 0 \/ (Len(shape) = 1 /\ shape[1] = 1))
    THEN [status |-> "fatal", tensor |-> NoNode.value]
    ELSE [status |-> "ok", tensor |-> [ToTensor(T, value) EXCEPT !.dims = shape]]

\* template ConstantScalarNode(T value, shape, arg_name)
ConstantScalarNodeOf(T, value, shape, arg_name) ==
    LET t_proto == ScalarTensorProto(T, value, shape)
    IN  IF t_proto.status = "fatal"
        THEN [NoNode EXCEPT !.status = "fatal"]
        ELSE [status |-> "ok", op_type |-> "Constant", inputs |-> <<>>,
              outputs |-> <<[name |-> arg_name, type |-> 0]>>,
              value |-> t_proto.tensor]

\* #if !defined(DISABLE_FLOAT8_TYPES): fixed when the program is built
Float8Types == constant_call.float8_types

\* the dispatch with the BFLOAT16 test left out
ConstantScalarNodeNoBF16(value, arg_name, elem_type) ==
    IF elem_type = FLOAT16
    THEN ConstantScalarNodeOf(FLOAT16, value, <<1>>, arg_name)
    ELSE IF Float8Types /\ elem_type = FLOAT8E4M3FN
    THEN ConstantScalarNodeOf(FLOAT8E4M3FN, value, <<1>>, arg_name)
    ELSE IF Float8Types /\ elem_type = FLOAT8E4M3FNUZ
    THEN ConstantScalarNodeOf(FLOAT8E4M3FNUZ, value, <<1>>, arg_name)
    ELSE IF Float8Types /\ elem_type = FLOAT8E5M2
    THEN ConstantScalarNodeOf(FLOAT8E5M2, value, <<1>>, arg_name)
    ELSE IF Float8Types /\ elem_type = FLOAT8E5M2FNUZ
    THEN ConstantScalarNodeOf(FLOAT8E5M2FNUZ, value, <<1>>, arg_name)
    ELSE ConstantScalarNodeOf(FLOAT, value, <<1>>, arg_name)

\* static NodeDef ConstantScalarNode(float value, arg_name, int elem_type)
ConstantScalarNode(value, arg_name, elem_type) ==
    IF elem_type = FLOAT16
    THEN ConstantScalarNodeOf(FLOAT16, value, <<1>>, arg_name)
    ELSE IF elem_type = BFLOAT16
    THEN ConstantScalarNodeOf(BFLOAT16, value, <<1>>, arg_name)
    ELSE IF Float8Types /\ elem_type = FLOAT8E4M3FN
    THEN ConstantScalarNodeOf(FLOAT8E4M3FN, value, <<1>>, arg_name)
    ELSE IF Float8Types /\ elem_type = FLOAT8E4M3FNUZ
    THEN ConstantScalarNodeOf(FLOAT8E4M3FNUZ, value, <<1>>, arg_name)
    ELSE IF Float8Types /\ elem_type = FLOAT8E5M2
    THEN ConstantScalarNodeOf(FLOAT8E5M2, value, <<1>>, arg_name)
    ELSE IF Float8Types /\ elem_type = FLOAT8E5M2FNUZ
    THEN ConstantScalarNodeOf(FLOAT8E5M2FNUZ, value, <<1>>, arg_name)
    ELSE ConstantScalarNodeOf(FLOAT, value, <<1>>, arg_name)

ZeroConstantNode(elem_type) ==
    ConstantScalarNode("0.0",
        <<"Z", "e", "r", "o", "C", "o", "n", "s", "t", "a", "n", "t", "_", "T", "y", "p", "e">>
            \o to_string(elem_type),
        elem_type)

HalfConstantNode(elem_type) ==
    ConstantScalarNode("0.5",
        <<"H", "a", "l", "f", "C", "o", "n", "s", "t", "a", "n", "t", "_", "T", "y", "p", "e">>
            \o to_string(elem_type),
        elem_type)

OneConstantNode(elem_type) ==
    ConstantScalarNode("1.0",
        <<"O", "n", "e", "C", "o", "n", "s", "t", "a", "n", "t", "_", "T", "y", "p", "e">>
            \o to_string(elem_type),
        elem_type)

ElemTypes == 0..MaxElemType
ConstantArgNames == {<<"c">>, <<"k", "0">>}

IdleConstantCall ==
    [float8_types |-> TRUE, op |-> "none", value |-> "0.0", arg_name |-> <<>>,
     elem_type |-> 0, node |-> NoNode]

\* a caller hands the arguments drawn at the start to ConstantScalarNode
CallConstantScalarNode ==
    /\ constant_call.op = "pending"
    /\ constant_call' =
          [constant_call EXCEPT
              !.op = "ConstantScalarNode",
              !.node = ConstantScalarNode(constant_call.value, constant_call.arg_name,
                                          constant_call.elem_type)]
    /\ UNCHANGED <<node_args, generated_node_names, name_counter,
                   builder, prefixes, stashed_tensors, ret, broadcast_call>>

\* a caller asks for the zero, the half or the one of the element type drawn
CallFixedConstantNode(which) ==
    /\ constant_call.op = "pending"
    /\ constant_call' =
          [constant_call EXCEPT
              !.op = which,
              !.node = CASE which = "ZeroConstantNode" -> ZeroConstantNode(constant_call.elem_type)
                         [] which = "HalfConstantNode" -> HalfConstantNode(constant_call.elem_type)
                         [] OTHER -> OneConstantNode(constant_call.elem_type)]
    /\ UNCHANGED <<node_args, generated_node_names, name_counter,
                   builder, prefixes, stashed_tensors, ret, broadcast_call>>

(***************************************************************************)
(* ComputeBroadcastBackwardAxes, declared here and defined in              *)
(* gradient_builder_base.cc.  Static shapes: every dimension is a concrete *)
(* extent.  Axes are counted in the broadcast result, whose rank is the    *)
(* larger of the two ranks.                                                *)
(***************************************************************************)
Max(a, b) == IF a >= b THEN a ELSE b

\* i and j run over A_dims and B_dims from their last dimension (0: used
\* up), k over the axes of the result.  Of two aligned extents that differ
\* the smaller side takes the axis; an axis the shorter operand lacks goes
\* to the shorter operand.  An axis is put in front of the list it joins,
\* which leaves both lists in ascending order.
RECURSIVE BroadcastWalk(_, _, _, _, _, _)
BroadcastWalk(A_dims, B_dims, i, j, k, acc) ==
    IF k < 0 THEN acc
    ELSE IF i >= 1 /\ j >= 1
    THEN LET a == A_dims[i]
             b == B_dims[j]
             next == IF a = b THEN acc
                     ELSE IF a < b THEN [acc EXCEPT !.A_axes = <<k>> \o @]
                     ELSE [acc EXCEPT !.B_axes = <<k>> \o @]
         IN  BroadcastWalk(A_dims, B_dims, i - 1, j - 1, k - 1, next)
    ELSE IF i < 1
    THEN BroadcastWalk(A_dims, B_dims, i, j - 1, k - 1, [acc EXCEPT !.A_axes = <<k>> \o @])
    ELSE BroadcastWalk(A_dims, B_dims, i - 1, j, k - 1, [acc EXCEPT !.B_axes = <<k>> \o @])

NoAxes == [A_axes |-> <<>>, B_axes |-> <<>>]

\* the walk that stops where the shorter operand ends
ComputeAxesAlignedOnly(A_dims, B_dims) ==
    LET n == Max(Len(A_dims), Len(B_dims))
        m == IF Len(A_dims) <= Len(B_dims) THEN Len(A_dims) ELSE Len(B_dims)
        lastA == SubSeq(A_dims, Len(A_dims) - m + 1, Len(A_dims))
        lastB == SubSeq(B_dims, Len(B_dims) - m + 1, Len(B_dims))
        r == BroadcastWalk(lastA, lastB, m, m, m - 1, NoAxes)
    IN  [A_axes |-> [x \in DOMAIN r.A_axes |-> r.A_axes[x] + (n - m)],
         B_axes |-> [x \in DOMAIN r.B_axes |-> r.B_axes[x] + (n - m)]]

ComputeBroadcastBackwardAxes(A_dims, B_dims) ==
    BroadcastWalk(A_dims, B_dims, Len(A_dims), Len(B_dims),
                  Max(Len(A_dims), Len(B_dims)) - 1, NoAxes)

Shapes == UNION {[1..r -> 1..MaxDim] : r \in 0..MaxRank}

IdleBroadcastCall ==
    [op |-> "none", A_dims |-> <<>>, B_dims |-> <<>>, result |-> NoAxes]

\* a caller hands the two shapes drawn at the start to the resolver
CallComputeBroadcastBackwardAxes ==
    /\ broadcast_call.op = "pending"
    /\ broadcast_call' =
          [broadcast_call EXCEPT
              !.op = "ComputeBroadcastBackwardAxes",
              !.result = ComputeBroadcastBackwardAxes(broadcast_call.A_dims,
                                                      broadcast_call.B_dims)]
    /\ UNCHANGED <<node_args, generated_node_names, name_counter,
                   builder, prefixes, stashed_tensors, ret, constant_call>>

(***************************************************************************)
(* The pass: one thread, one live builder at a time, the graph and         *)
(* StashedTensors shared by all builders of the pass.                      *)
(***************************************************************************)
Indices == 0..MaxIdx

\* the type a caller of GI(i, type) supplies: FLOAT16, which differs from the
\* type of the forward inputs it is used with
OverrideTypes == {FLOAT16}

\* suffixes a concrete builder hands to IA
Suffixes == {<<"t">>, <<"b", "_", "G", "r", "a", "d">>,
             <<"b", "_", "G", "r", "a", "d", "/", "t">>}

\* the availability sets the orchestrator hands to the constructor
\* (gradient_inputs, gradient_outputs): nothing at all, or a gradient for
\* every output and one required for the first input only
GradientChoices(n) ==
    IF n = 0 THEN {<<{}, {}>>}
    ELSE {<<{}, {}>>, <<SeqRange(OutputDefs(n)), {InputDefs(n)[1]}>>}

\* the recompute pass ran before: it may have added an alias for any tensor
\* that a forward node produces
Init ==
    /\ \E recomputed \in SUBSET RecomputeCandidates :
          node_args = ForwardArgs \cup {RecomputeName(t) : t \in recomputed}
    /\ generated_node_names = {}
    /\ name_counter = 0
    /\ builder = NoBuilder
    /\ prefixes = {}
    /\ stashed_tensors = {}
    /\ ret = NoCall
    /\ constant_call = IdleConstantCall
    /\ broadcast_call = IdleBroadcastCall

Next ==
    \/ \E n \in NodeIds \cup {0}, kind \in BuilderKinds :
         \E g \in GradientChoices(n) : Construct(n, kind, g[1], g[2])
    \/ Destroy
    \/ \E name \in ForwardArgs : RecordStashedTensor(name)
    \/ \E name \in ForwardArgs : IsTensorStashed(name)
    \/ \E i \in Indices, record_stashing \in BOOLEAN : I(i, record_stashing)
    \/ \E i \in Indices, record_stashing \in BOOLEAN : O(i, record_stashing)
    \/ \E i \in Indices : GI(i)
    \/ \E i \in Indices, type \in OverrideTypes : GIType(i, type)
    \/ \E i \in Indices : GO(i)
    \/ \E i \in Indices : IType(i)
    \/ \E i \in Indices : OType(i)
    \/ \E i \in Indices : IsGradientRequiredForSrcNodeInput(i)
    \/ \E i \in Indices : IsGradientAvailableForSrcNodeOutput(i)
    \/ \E argSuffix \in Suffixes : IA(argSuffix)
    \/ \E impl \in GetGradientDefsImpl : GetGradientDefs(impl)

Spec == Init /\ [][Next]_vars

\* the pass before its first builder
NoPass ==
    /\ node_args = ForwardArgs
    /\ generated_node_names = {}
    /\ name_counter = 0
    /\ builder = NoBuilder
    /\ prefixes = {}
    /\ stashed_tensors = {}
    /\ ret = NoCall

(***************************************************************************)
(* The constant helpers on their own: the arguments and the build flag are *)
(* drawn at the start, a call applies the helper to them.                  *)
(***************************************************************************)
InitConstant ==
    /\ NoPass
    /\ broadcast_call = IdleBroadcastCall
    /\ \E f \in BOOLEAN, v \in FloatValues, a \in ConstantArgNames, e \in ElemTypes :
          constant_call = [IdleConstantCall EXCEPT
                              !.float8_types = f, !.op = "pending", !.value = v,
                              !.arg_name = a, !.elem_type = e]

NextConstant ==
    \/ CallConstantScalarNode
    \/ \E which \in {"ZeroConstantNode", "HalfConstantNode", "OneConstantNode"} :
          CallFixedConstantNode(which)

SpecConstant == InitConstant /\ [][NextConstant]_vars

(***************************************************************************)
(* The axis resolver on its own: the two shapes are drawn at the start.    *)
(***************************************************************************)
InitBroadcast ==
    /\ NoPass
    /\ constant_call = IdleConstantCall
    /\ \E A \in Shapes, B \in Shapes :
          broadcast_call = [IdleBroadcastCall EXCEPT
                               !.op = "pending", !.A_dims = A, !.B_dims = B]

NextBroadcast == CallComputeBroadcastBackwardAxes

SpecBroadcast == InitBroadcast /\ [][NextBroadcast]_vars

(***************************************************************************)
(* Properties of the pass.                                                 *)
(***************************************************************************)
HasAlias(name) == RecomputeName(name) \in node_args

InRangeInput(i) == builder # NoBuilder /\ i < Len(InputDefs(builder.node))
InRangeOutput(i) == builder # NoBuilder /\ i < Len(OutputDefs(builder.node))
BeyondInputs(i) == builder # NoBuilder /\ ~(i < Len(InputDefs(builder.node)))
BeyondOutputs(i) == builder # NoBuilder /\ ~(i < Len(OutputDefs(builder.node)))

\* what C1 says of a call of I or O that reads the forward argument name
RedirectedOrStashed(name, record_stashing) ==
    /\ ret'.status = "ok"
    /\ IF HasAlias(name)
       THEN /\ ret'.name = RecomputeName(name)
            /\ (name \in stashed_tensors' => name \in stashed_tensors)
       ELSE /\ ret'.name = name
            /\ (record_stashing => name \in stashed_tensors')
            /\ (~record_stashing => stashed_tensors' = stashed_tensors)

\* C1: for an in-range index, I(i) and O(i) return the recomputed alias and
\* do not add the original name to StashedTensors when the graph holds the
\* alias; otherwise they return the original name, which is in
\* StashedTensors afterwards when record_stashing is true, and leave
\* StashedTensors unchanged when record_stashing is false.
C1_RecomputeRedirection ==
    [][\A i \in Indices, record_stashing \in BOOLEAN :
          /\ (ret'.op = "I" /\ InRangeInput(i) /\ I(i, record_stashing))
                => RedirectedOrStashed(InputDefs(builder.node)[i + 1], record_stashing)
          /\ (ret'.op = "O" /\ InRangeOutput(i) /\ O(i, record_stashing))
                => RedirectedOrStashed(OutputDefs(builder.node)[i + 1], record_stashing)]_vars

\* an accessor asked to record stashing returned an alias, and the original
\* name is not stashed
C1_Witness ==
    /\ ret.op \in {"I", "O"}
    /\ ret.status = "ok"
    /\ ret.record_stashing
    /\ ret.name = RecomputeName(ret.text)
    /\ ret.text \notin stashed_tensors

\* C2: StashedTensors only grows, whatever the builders of the pass do.
C2_StashOnlyGrows == [][stashed_tensors \subseteq stashed_tensors']_vars

\* a second builder is live, names are stashed and the last call failed
C2_Witness ==
    /\ Cardinality(prefixes) >= 2
    /\ builder # NoBuilder
    /\ Cardinality(stashed_tensors) >= 2
    /\ ret.status = "fatal"

NothingReturned ==
    /\ ret'.status = "fatal"
    /\ ret'.name = <<>>
    /\ ret'.type = 0
    /\ stashed_tensors' = stashed_tensors

\* C3: an index at or beyond the input count (I, GI, IType) or the output
\* count (O, GO, OType) makes the accessor fail without an argument and
\* without a change of StashedTensors; the two availability tests answer
\* false there and do not fail.
C3_IndexOutOfRange ==
    [][\A i \in Indices :
          /\ (/\ ret'.op \in {"I", "GI", "GIType", "IType"}
              /\ BeyondInputs(i)
              /\ (\/ I(i, TRUE) \/ I(i, FALSE) \/ GI(i) \/ IType(i)
                  \/ \E type \in OverrideTypes : GIType(i, type)))
                => NothingReturned
          /\ (/\ ret'.op \in {"O", "GO", "OType"}
              /\ BeyondOutputs(i)
              /\ (\/ O(i, TRUE) \/ O(i, FALSE) \/ GO(i) \/ OType(i)))
                => NothingReturned
          /\ (/\ ret'.op = "IsGradientRequiredForSrcNodeInput"
              /\ BeyondInputs(i)
              /\ IsGradientRequiredForSrcNodeInput(i))
                => (ret'.status = "ok" /\ ret'.bool = FALSE)
          /\ (/\ ret'.op = "IsGradientAvailableForSrcNodeOutput"
              /\ BeyondOutputs(i)
              /\ IsGradientAvailableForSrcNodeOutput(i))
                => (ret'.status = "ok" /\ ret'.bool = FALSE)]_vars

\* a gradient accessor failed while names were stashed
C3_Witness ==
    /\ ret.op = "GI"
    /\ ret.status = "fatal"
    /\ stashed_tensors # {}

\* this step is a call of GetGradientDefs on the live builder: every call
\* of a method leaves its own name in ret.op, and the two steps that leave
\* ret alone, Construct and Destroy, change the builder
GetGradientDefsStep ==
    /\ ret'.op = "GetGradientDefs"
    /\ builder # NoBuilder
    /\ builder' = builder

NamesOf(node_defs) == [k \in 1..Len(node_defs) |-> node_defs[k].name]

AllNamed(node_defs) == \A k \in 1..Len(node_defs) : node_defs[k].name # <<>>

NoTwoAlike(node_defs, positions) ==
    \A j, k \in positions : j # k => node_defs[j].name # node_defs[k].name

\* a node whose name the implementation left empty is named
\* <builder prefix> + <op_type> + "_" + <its 0-based index in the list>
EmptyNamesFilled(prefix, impl_defs, node_defs) ==
    /\ Len(node_defs) = Len(impl_defs)
    /\ \A k \in 1..Len(impl_defs) :
          /\ node_defs[k].op_type = impl_defs[k].op_type
          /\ impl_defs[k].name = <<>> =>
                node_defs[k].name =
                    prefix \o impl_defs[k].op_type \o <<"_">> \o to_string(k - 1)

\* C4 as stated: whatever list the implementation returns, the list returned
\* by GetGradientDefs has no empty name and no name twice, and a node whose
\* name was left empty is named <prefix><op_type>_<index>.
C4_AsStated ==
    [][(GetGradientDefsStep /\ ret'.status = "ok") =>
          /\ AllNamed(ret'.defs)
          /\ NoTwoAlike(ret'.defs, 1..Len(ret'.defs))
          /\ EmptyNamesFilled(builder.unique_node_prefix, ret'.impl, ret'.defs)]_vars

\* C4 amended: every node of the returned list has a non-empty name; a node
\* whose name was left empty is named <prefix><op_type>_<index>, a node the
\* implementation named keeps its name, and no two of the nodes whose names
\* were left empty get the same name.
C4_NamesFinalized ==
    [][(GetGradientDefsStep /\ ret'.status = "ok") =>
          /\ AllNamed(ret'.defs)
          /\ EmptyNamesFilled(builder.unique_node_prefix, ret'.impl, ret'.defs)
          /\ \A k \in 1..Len(ret'.impl) :
                ret'.impl[k].name # <<>> => ret'.defs[k] = ret'.impl[k]
          /\ NoTwoAlike(ret'.defs,
                        {k \in 1..Len(ret'.impl) : ret'.impl[k].name = <<>>})]_vars

\* GetGradientDefs returned at least two nodes whose names were left empty
C4_Witness ==
    /\ ret.op = "GetGradientDefs"
    /\ ret.status = "ok"
    /\ Len(ret.impl) >= 2
    /\ ret.impl[1].name = <<>>
    /\ ret.impl[2].name = <<>>
    /\ ret.defs[1].name # ret.defs[2].name

C6_UnSupportedIsFatal ==
    [][(GetGradientDefsStep /\ builder.kind = "UnSupported") =>
          /\ ret'.status = "fatal"
          /\ ret'.defs = <<>>]_vars

\* GetGradientDefs failed on an unsupported builder that was given gradients
C6_Witness ==
    /\ builder.kind = "UnSupported"
    /\ builder.gradient_outputs # {}
    /\ ret.op = "GetGradientDefs"
    /\ ret.status = "fatal"

\* C7: GetGradientDefs on an EmptyGradientBuilder returns a GradientDef of
\* zero nodes and leaves StashedTensors as it was.
C7_EmptyBuilder ==
    [][(GetGradientDefsStep /\ builder.kind = "Empty") =>
          /\ ret'.status = "ok"
          /\ ret'.defs = <<>>
          /\ stashed_tensors' = stashed_tensors]_vars

\* GetGradientDefs returned on an empty builder that was given gradients,
\* with a name stashed before and an input of its node not stashed
C7_Witness ==
    /\ builder.kind = "Empty"
    /\ builder.gradient_outputs # {}
    /\ ret.op = "GetGradientDefs"
    /\ ret.status = "ok"
    /\ stashed_tensors # {}
    /\ \E name \in SeqRange(InputDefs(builder.node)) :
          name \notin stashed_tensors /\ ~HasAlias(name)

(***************************************************************************)
(* C10.  Reading the same forward argument again.                          *)
(***************************************************************************)
\* the last call returned was a successful I or O on a forward argument
WasRead == ret.op \in {"I", "O"} /\ ret.status = "ok"

\* this step is a successful I or O
ReadStep == ret'.op \in {"I", "O"} /\ ret'.status = "ok" /\ builder' = builder

\* C10 as stated: a call of I or O on the forward argument the previous I or
\* O call was on leaves StashedTensors as that previous call left it
C10_AsStated ==
    [][(ReadStep /\ WasRead /\ ret'.text = ret.text)
          => stashed_tensors' = stashed_tensors]_vars

\* C10: a call of I or O adds no name but that of the forward argument it
\* reads; it leaves StashedTensors as it was when the name is in the set
\* already, when the call asks for no stashing, or when the previous call
\* was an I or O on the same argument that asked for stashing
C10_StashIdempotence ==
    [][ReadStep =>
          /\ stashed_tensors' \subseteq stashed_tensors \cup {ret'.text}
          /\ (\/ ret'.text \in stashed_tensors
              \/ ~ret'.record_stashing
              \/ (WasRead /\ ret.text = ret'.text /\ ret.record_stashing))
                => stashed_tensors' = stashed_tensors]_vars

\* a second builder has read, with stashing, an argument that the first
\* builder stashed, next to another stashed name
C10_Witness ==
    /\ WasRead
    /\ ret.record_stashing
    /\ ret.text \in stashed_tensors
    /\ Cardinality(stashed_tensors) >= 2
    /\ Cardinality(prefixes) >= 2
    /\ builder # NoBuilder
    /\ \E n \in NodeIds \ {builder.node} :
          ret.text \in SeqRange(InputDefs(n)) \cup SeqRange(OutputDefs(n))

(***************************************************************************)
(* C8.  The dispatch of ConstantScalarNode.                                *)
(***************************************************************************)
Float8Tags == {FLOAT8E4M3FN, FLOAT8E4M3FNUZ, FLOAT8E5M2, FLOAT8E5M2FNUZ}

\* the encoding the element type calls for
EncodingOf(elem_type) ==
    IF elem_type \in {FLOAT16, BFLOAT16} THEN elem_type
    ELSE IF constant_call.float8_types /\ elem_type \in Float8Tags THEN elem_type
    ELSE FLOAT

Broadcastable(small, big) ==
    /\ Len(small) <= Len(big)
    /\ \A x \in 1..Len(small) :
          small[x] = 1 \/ small[x] = big[x + Len(big) - Len(small)]

\* the shape of a sum over axes that keeps the summed dimensions
ReduceKeepDims(shape, axes) ==
    [x \in 1..Len(shape) |-> IF (x - 1) \in SeqRange(axes) THEN 1 ELSE shape[x]]

\* dims with ones in front up to rank n
PadLeft(dims, n) ==
    [x \in 1..n |-> IF x <= n - Len(dims) THEN 1 ELSE dims[x - (n - Len(dims))]]

Ascending(axes) == \A x, y \in 1..Len(axes) : x < y => axes[x] < axes[y]

\* the sum of a gradient of shape big over axes has as many elements as
\* small, dimension by dimension, so that a reshape gives the shape small
ReducesTo(big, axes, small) ==
    /\ SeqRange(axes) \subseteq 0..(Len(big) - 1)
    /\ ReduceKeepDims(big, axes) = PadLeft(small, Len(big))

====
